---- MODULE Spec2Model ----
(***************************************************************************)
(* A model of the AI-Travel-Guide backend:                                 *)
(*   - FAISSStore (backend/app/vector_store.py): the shared memory store;  *)
(*   - signup / login / profile / chat handlers (backend/app/main.py);     *)
(*   - process_query and OpenWeatherTool (langchain_integration.py).       *)
(* The store part comes first; it is checked under SpecStore.              *)
(***************************************************************************)
EXTENDS Integers, Sequences, FiniteSets, TLC

VARIABLES
    index,      \* FAISSStore.index: the vectors of the flat L2 index, in insertion order
    texts,      \* FAISSStore.texts: the Python list of stored texts
    call,       \* per caller: the FAISSStore method it is inside, and its locals
    ret,        \* the value most recently returned by a FAISSStore method
    addCalls,   \* number of add_text calls that have returned
    users,      \* the rows of the Supabase table "users", in insertion order
    issued,     \* the access tokens login has handed out
    now,        \* the clock (datetime.utcnow), in minutes
    req,        \* per client: the HTTP handler it is inside, and the handler's locals
    resp,       \* the HTTP response most recently sent
    tool        \* the OpenWeatherTool invocation: its position, its input and its result

storeVars == <<index, texts, call, ret, addCalls>>
apiVars == <<users, issued, now, req, resp>>
vars == <<index, texts, call, ret, addCalls, users, issued, now, req, resp, tool>>

\* ------------------------------------------------------------------ bounds
\* At most MaxTexts add_text calls are started in a run.
MaxTexts == 2
\* The values of top_k that search is called with (1 is the default and the
\* value process_query passes).
TopK == {1, 2}

\* Callers of the shared store instance (vector_store.py:29).
Procs == {"w1", "w2"}

\* Texts handed to the store.
Texts == {"hello", "Hello", "paris"}

NoText == "<none>"

Range(s) == {s[i] : i \in 1..Len(s)}

\* ------------------------------------------------------------------ embedding
\* SentenceTransformer("all-MiniLM-L6-v2").encode: a deterministic function of
\* the text into a fixed-dimension vector. The model's tokenizer is uncased, so
\* texts that differ only in case get the same vector: the map is not injective.
encode(t) ==
    CASE t = "hello" -> <<1, 0>>
      [] t = "Hello" -> <<1, 0>>
      [] t = "paris" -> <<0, 2>>
      [] OTHER       -> <<3, 3>>

\* Squared Euclidean distance, the metric of faiss.IndexFlatL2.
L2(u, v) == (u[1] - v[1]) * (u[1] - v[1]) + (u[2] - v[2]) * (u[2] - v[2])

Min(a, b) == IF a < b THEN a ELSE b

\* faiss labels are 0-based positions; -1 marks a result slot the index cannot fill.
Labels(idx) == 0..(Len(idx) - 1)

Pad(n) == [i \in 1..n |-> -1]

\* IndexFlatL2.search(q, k): every answer the index may give: exactly k labels,
\* the Min(k, ntotal) nearest vectors in order of non-decreasing distance (the
\* order among equal distances is not specified), then -1 for the unfilled slots.
IndexSearch(idx, q, k) ==
    LET m == Min(k, Len(idx))
        D(l) == L2(idx[l + 1], q)
    IN  { s \o Pad(k - m) : s \in
            { f \in [1..m -> Labels(idx)] :
                /\ \A i, j \in 1..m : i < j => (f[i] # f[j] /\ D(f[i]) <= D(f[j]))
                /\ \A l \in Labels(idx) :
                      (\A i \in 1..m : f[i] # l) => (\A i \in 1..m : D(f[i]) <= D(l)) } }

\* Python list indexing: a negative position counts from the end of the list;
\* a position outside -len..len-1 raises IndexError.
InRange(lst, i) == -Len(lst) <= i /\ i < Len(lst)

PyIndex(lst, i) == IF i >= 0 THEN lst[i + 1] ELSE lst[Len(lst) + i + 1]

\* The guard of the list comprehension in FAISSStore.search (vector_store.py:25).
Keep(i, lst) == i < Len(lst)

\* Whether evaluating the comprehension raises IndexError: some label passes the
\* guard and is not a position of the list.
Raises(labels, lst) ==
    \E j \in 1..Len(labels) : Keep(labels[j], lst) /\ ~InRange(lst, labels[j])

\* [self.texts[i] for i in indices[0] if i < len(self.texts)]
RECURSIVE Comprehension(_, _)
Comprehension(labels, lst) ==
    IF labels = <<>> THEN <<>>
    ELSE LET i == Head(labels)
         IN  (IF Keep(i, lst) THEN <<PyIndex(lst, i)>> ELSE <<>>)
                \o Comprehension(Tail(labels), lst)

\* ------------------------------------------------------------------ API data
\* At most MaxUsers rows are inserted into the users table in a run.
MaxUsers == 2
\* At most MaxTokens access tokens are issued in a run.
MaxTokens == 2
\* The clock stops at MaxTime minutes.
MaxTime == 40
\* Lifetime of an access token in minutes.
ACCESS_TOKEN_EXPIRE_MINUTES == 30

\* The clock advances by one of these numbers of minutes. No step brings the
\* clock exactly onto the expiry of a token, the one instant at which releases
\* of PyJWT differ (exp < now in the older ones, exp <= now in the newer).
TickSteps == {20}

\* HTTP clients whose requests the serving layer handles concurrently.
Clients == {"c1", "c2"}

None == "None"
Emails == {"a@x.com", "b@x.com"}
Passwords == {"pw", "bad"}
Salts == {"s1"}
Names == {"A", "B"}
\* Preference mappings, as sets of key-value pairs.
PrefsChoices == { {}, {<<"budget", "low">>} }
\* Bodies of POST /chat.
Queries == {"", "paris"}
\* Answers of the agent.
Responses == {"hello", "Hello"}

\* bcrypt.hashpw(password, bcrypt.gensalt()): the salt, and a digest of salt and password.
get_password_hash(password, salt) == [salt |-> salt, digest |-> <<salt, password>>]

\* bcrypt.checkpw: recompute the digest with the salt stored in the hash.
verify_password(plain_password, hashed_password) ==
    hashed_password.digest = <<hashed_password.salt, plain_password>>

NoHash == [salt |-> None, digest |-> <<None, None>>]
NoRow == [email |-> None, hashed_password |-> NoHash, full_name |-> None,
          travel_preferences |-> {}]

\* The value of SECRET_KEY, known to the server only.
SECRET_KEY == "secret"
NoToken == [sub |-> None, exp |-> 0, sig |-> "none"]

\* create_access_token({"sub": sub}, timedelta(minutes=30)) at time t.
create_access_token(sub, t) ==
    [sub |-> sub, exp |-> t + ACCESS_TOKEN_EXPIRE_MINUTES, sig |-> SECRET_KEY]

\* Tokens a client makes up without the key.
Forged == [sub : Emails, exp : {MaxTime + ACCESS_TOKEN_EXPIRE_MINUTES}, sig : {"forged"}]

\* A variant of jwt.decode that does not look at the exp claim.
jwt_decode_no_exp(token, t) ==
    IF token.sig # SECRET_KEY THEN "InvalidSignatureError" ELSE "payload"

\* jwt.decode(token, SECRET_KEY, algorithms=[ALGORITHM]) at time t: "payload"
\* when it returns the payload, else the PyJWTError it raises: the signature is
\* verified first, then the exp claim, which must lie after t.
jwt_decode(token, t) ==
    IF token.sig # SECRET_KEY THEN "InvalidSignatureError"
    ELSE IF token.exp <= t THEN "ExpiredSignatureError"
    ELSE "payload"

\* supabase.table("users").select("*").eq("email", email).execute().data
Select(rows, email) == SelectSeq(rows, LAMBDA r : r.email = email)

\* get_current_user: why it raises the 401 "Could not validate credentials",
\* or "" when it returns the user row.
credentials_exception(token, t, rows) ==
    IF jwt_decode(token, t) # "payload" THEN jwt_decode(token, t)
    ELSE IF token.sub = None THEN "no sub"
    ELSE IF Select(rows, token.sub) = <<>> THEN "no user"
    ELSE ""

\* get_current_user: the user row of the token's subject (result.data[0]), or
\* NoRow when it raises.
get_current_user(token, t, rows) ==
    IF credentials_exception(token, t, rows) # "" THEN NoRow
    ELSE Select(rows, token.sub)[1]

\* The users table declares the email column unique: an insert of an email
\* that a row already holds is refused.
UniqueViolation(rows, email) == Select(rows, email) # <<>>

\* A variant of the update of PUT /profile that selects the rows by the email
\* of the request body.
UpdateRowsByBodyEmail(rows, email, body) ==
    [i \in 1..Len(rows) |->
        IF rows[i].email = body.email
        THEN [rows[i] EXCEPT !.full_name = body.full_name,
                             !.travel_preferences = body.travel_preferences]
        ELSE rows[i]]

\* update({"full_name": ..., "travel_preferences": ...}).eq("email", email)
UpdateRows(rows, email, body) ==
    [i \in 1..Len(rows) |->
        IF rows[i].email = email
        THEN [rows[i] EXCEPT !.full_name = body.full_name,
                             !.travel_preferences = body.travel_preferences]
        ELSE rows[i]]

\* The request bodies of PUT /profile (UserProfile).
Bodies == [email : Emails, full_name : Names, travel_preferences : PrefsChoices]
NoBody == [email |-> None, full_name |-> None, travel_preferences |-> {}]

\* ------------------------------------------------------------------ API state
IdleReq == [op |-> "idle", pc |-> "idle", email |-> None, password |-> None,
            full_name |-> None, body |-> NoBody, user |-> None, query |-> "",
            labels |-> <<>>, context |-> "", response |-> "", adds |-> 0]

\* A response: the endpoint, the status code, the detail of an error, and of the
\* body what the endpoint returns (the token of login, the row of GET /profile,
\* the response of chat). cause, dup and adds describe how the handler got there:
\* the exception behind a 401 or a 500, whether a row held the email when signup
\* answered, and the number of add_text calls the chat request made.
NoResp == [op |-> "none", status |-> 0, detail |-> "", cause |-> "", dup |-> FALSE,
           token |-> NoToken, body |-> NoRow, adds |-> 0, response |-> ""]

\* An empty users table, no token issued yet, every client between requests.
InitApi ==
    /\ users = <<>>
    /\ issued = {}
    /\ now = 0
    /\ req = [c \in Clients |-> IdleReq]
    /\ resp = NoResp

Unauthorized(op, cause) ==
    [NoResp EXCEPT !.op = op, !.status = 401,
                   !.detail = "Could not validate credentials", !.cause = cause]

\* Signups that passed the lookup and have not inserted yet.
Inserting == {c \in Clients : req[c].op = "signup"}

\* signup, lines 95-97: look the email up; answer 400 when a row holds it.
SignupLookup(c, email, password, full_name) ==
    /\ req[c].op = "idle"
    /\ IF Select(users, email) # <<>>
       THEN /\ resp' = [NoResp EXCEPT !.op = "signup", !.status = 400,
                                      !.detail = "Email already registered",
                                      !.dup = TRUE]
            /\ UNCHANGED req
       ELSE /\ Len(users) + Cardinality(Inserting) < MaxUsers
            /\ req' = [req EXCEPT ![c] = [IdleReq EXCEPT !.op = "signup", !.pc = "insert",
                                            !.email = email, !.password = password,
                                            !.full_name = full_name]]
            /\ UNCHANGED resp
    /\ UNCHANGED <<users, issued, now>>
    /\ UNCHANGED <<index, texts, call, ret, addCalls, tool>>

\* signup, lines 98-108: hash the password and insert the row; a refused or
\* failed insert answers 500.
SignupInsert(c) ==
    /\ req[c].op = "signup"
    /\ \E salt \in Salts, failure \in BOOLEAN :
         LET row == [email |-> req[c].email,
                     hashed_password |-> get_password_hash(req[c].password, salt),
                     full_name |-> req[c].full_name,
                     travel_preferences |-> {}]
             dup == Select(users, req[c].email) # <<>>
         IN  IF UniqueViolation(users, req[c].email) \/ failure
             THEN /\ resp' = [NoResp EXCEPT !.op = "signup", !.status = 500,
                                            !.detail = "User could not be created",
                                            !.dup = dup]
                  /\ UNCHANGED users
             ELSE /\ users' = Append(users, row)
                  /\ resp' = [NoResp EXCEPT !.op = "signup", !.status = 200,
                                            !.dup = dup]
    /\ req' = [req EXCEPT ![c] = IdleReq]
    /\ UNCHANGED <<issued, now>>
    /\ UNCHANGED <<index, texts, call, ret, addCalls, tool>>

\* A variant of login that tells an unknown email from a wrong password.
login_reveals(rows, username, password, t) ==
    IF Select(rows, username) = <<>>
    THEN [status |-> 400, detail |-> "Unknown email", token |-> NoToken]
    ELSE IF ~verify_password(password, Select(rows, username)[1].hashed_password)
    THEN [status |-> 400, detail |-> "Incorrect email or password", token |-> NoToken]
    ELSE [status |-> 200, detail |-> "",
          token |-> create_access_token(Select(rows, username)[1].email, t)]

\* login, lines 113-121: the status, the detail and the token of the answer.
login(rows, username, password, t) ==
    IF Select(rows, username) = <<>>
    THEN [status |-> 400, detail |-> "Incorrect email or password", token |-> NoToken]
    ELSE IF ~verify_password(password, Select(rows, username)[1].hashed_password)
    THEN [status |-> 400, detail |-> "Incorrect email or password", token |-> NoToken]
    ELSE [status |-> 200, detail |-> "",
          token |-> create_access_token(Select(rows, username)[1].email, t)]

\* POST /login.
Login(c, username, password) ==
    /\ req[c].op = "idle"
    /\ LET r == login(users, username, password, now)
       IN  /\ r.status = 200 => Cardinality(issued \cup {r.token}) <= MaxTokens
           /\ resp' = [NoResp EXCEPT !.op = "login", !.status = r.status,
                                     !.detail = r.detail, !.token = r.token]
           /\ issued' = IF r.status = 200 THEN issued \cup {r.token} ELSE issued
    /\ UNCHANGED <<users, now, req>>
    /\ UNCHANGED <<index, texts, call, ret, addCalls, tool>>

\* GET /profile, lines 124-126.
ReadProfile(c, token) ==
    /\ req[c].op = "idle"
    /\ LET current_user == get_current_user(token, now, users)
       IN  resp' = IF current_user = NoRow THEN Unauthorized("read_profile", credentials_exception(token, now, users))
                   ELSE [NoResp EXCEPT !.op = "read_profile", !.status = 200,
                                       !.body = current_user]
    /\ UNCHANGED <<users, issued, now, req>>
    /\ UNCHANGED <<index, texts, call, ret, addCalls, tool>>

\* PUT /profile: the get_current_user dependency, run before the handler body.
UpdateAuth(c, token, body) ==
    /\ req[c].op = "idle"
    /\ LET current_user == get_current_user(token, now, users)
       IN  IF current_user = NoRow
           THEN /\ resp' = Unauthorized("update_profile",
                                             credentials_exception(token, now, users))
                /\ UNCHANGED req
           ELSE /\ req' = [req EXCEPT ![c] = [IdleReq EXCEPT !.op = "update_profile",
                                                 !.pc = "update",
                                                 !.user = current_user.email,
                                                 !.body = body]]
                /\ UNCHANGED resp
    /\ UNCHANGED <<users, issued, now>>
    /\ UNCHANGED <<index, texts, call, ret, addCalls, tool>>

\* update_profile, lines 131-136: the update statement; a failed one answers 500.
UpdateWrite(c) ==
    /\ req[c].op = "update_profile" /\ req[c].pc = "update"
    /\ \E failure \in BOOLEAN :
         IF failure
         THEN /\ resp' = [NoResp EXCEPT !.op = "update_profile", !.status = 500,
                                        !.detail = "Profile update failed"]
              /\ req' = [req EXCEPT ![c] = IdleReq]
              /\ UNCHANGED users
         ELSE /\ users' = UpdateRows(users, req[c].user, req[c].body)
              /\ req' = [req EXCEPT ![c].pc = "reselect"]
              /\ UNCHANGED resp
    /\ UNCHANGED <<issued, now>>
    /\ UNCHANGED <<index, texts, call, ret, addCalls, tool>>

\* update_profile, lines 137-138: read the row back and return it.
UpdateReturn(c) ==
    /\ req[c].op = "update_profile" /\ req[c].pc = "reselect"
    /\ resp' = [NoResp EXCEPT !.op = "update_profile", !.status = 200,
                              !.body = Select(users, req[c].user)[1]]
    /\ req' = [req EXCEPT ![c] = IdleReq]
    /\ UNCHANGED <<users, issued, now>>
    /\ UNCHANGED <<index, texts, call, ret, addCalls, tool>>

\* Time passes.
Tick(d) ==
    /\ now + d <= MaxTime
    /\ now' = now + d
    /\ UNCHANGED <<users, issued, req, resp>>
    /\ UNCHANGED <<index, texts, call, ret, addCalls, tool>>

\* ------------------------------------------------------------------ store state
Idle == [op |-> "idle", text |-> NoText, k |-> 0, labels |-> <<>>, had |-> FALSE]

NoRet == [op |-> "none", text |-> NoText, k |-> 0, labels |-> <<>>,
          results |-> <<>>, raised |-> FALSE, had |-> FALSE]

\* The module-level FAISSStore() of vector_store.py:29.
InitStore ==
    /\ index = <<>>
    /\ texts = <<>>
    /\ call = [p \in Procs |-> Idle]
    /\ ret = NoRet
    /\ addCalls = 0

\* add_text, lines 16-18: embed the text and add the vector to the index.
AddIndex(p, t) ==
    /\ call[p].op = "idle"
    /\ Len(index) < MaxTexts
    /\ index' = Append(index, encode(t))
    /\ call' = [call EXCEPT ![p] = [Idle EXCEPT !.op = "add", !.text = t]]
    /\ UNCHANGED <<texts, ret, addCalls>>
    /\ UNCHANGED <<users, issued, now, req, resp, tool>>

\* A variant of line 19 that stores a text only once.
AppendTextDedup(lst, t) == IF t \in Range(lst) THEN lst ELSE Append(lst, t)

\* The effect of line 19 on the text list.
AppendText(lst, t) == Append(lst, t)

\* add_text, line 19: append the text to the list, and return.
AddAppend(p) ==
    /\ call[p].op = "add"
    /\ texts' = AppendText(texts, call[p].text)
    /\ addCalls' = addCalls + 1
    /\ call' = [call EXCEPT ![p] = Idle]
    /\ ret' = [NoRet EXCEPT !.op = "add", !.text = call[p].text]
    /\ UNCHANGED index
    /\ UNCHANGED <<users, issued, now, req, resp, tool>>

\* search, lines 22-24: embed the query and ask the index for top_k labels.
SearchIndex(p, q, k) ==
    /\ call[p].op = "idle"
    /\ \E labels \in IndexSearch(index, encode(q), k) :
          call' = [call EXCEPT ![p] = [op |-> "search", text |-> q, k |-> k,
                                       labels |-> labels, had |-> q \in Range(texts)]]
    /\ UNCHANGED <<index, texts, ret, addCalls>>
    /\ UNCHANGED <<users, issued, now, req, resp, tool>>

\* search, lines 25-26: map the labels to texts, and return the list, or leave
\* with the IndexError the comprehension raised.
SearchFilter(p) ==
    /\ call[p].op = "search"
    /\ ret' = [op |-> "search", text |-> call[p].text, k |-> call[p].k,
               labels |-> call[p].labels,
               results |-> IF Raises(call[p].labels, texts) THEN <<>>
                           ELSE Comprehension(call[p].labels, texts),
               raised |-> Raises(call[p].labels, texts),
               had |-> call[p].had]
    /\ call' = [call EXCEPT ![p] = Idle]
    /\ UNCHANGED <<index, texts, addCalls>>
    /\ UNCHANGED <<users, issued, now, req, resp, tool>>

NextStore ==
    \/ \E p \in Procs, t \in Texts : AddIndex(p, t)
    \/ \E p \in Procs : AddAppend(p)
    \/ \E p \in Procs, q \in Texts, k \in TopK : SearchIndex(p, q, k)
    \/ \E p \in Procs : SearchFilter(p)

\* ------------------------------------------------------------------ chat
ServerError(c, cause) ==
    [NoResp EXCEPT !.op = "chat", !.status = 500, !.detail = "Internal Server Error",
                   !.cause = cause, !.adds = req[c].adds]

\* POST /chat, lines 142-152: the get_current_user dependency, then the check
\* of the query.
ChatAuth(c, token, query) ==
    /\ req[c].op = "idle"
    /\ LET current_user == get_current_user(token, now, users)
       IN  IF current_user = NoRow
           THEN /\ resp' = Unauthorized("chat", credentials_exception(token, now, users))
                /\ UNCHANGED req
           ELSE IF query = ""
           THEN /\ resp' = [NoResp EXCEPT !.op = "chat", !.status = 400,
                                          !.detail = "Query is required.",
                                          !.cause = "empty_query"]
                /\ UNCHANGED req
           ELSE /\ req' = [req EXCEPT ![c] = [IdleReq EXCEPT !.op = "chat", !.pc = "search",
                                                 !.user = current_user.email,
                                                 !.query = query]]
                /\ UNCHANGED resp
    /\ UNCHANGED <<users, issued, now>>
    /\ UNCHANGED <<index, texts, call, ret, addCalls, tool>>

\* The next step of process_query(query, user_profile) for the chat request of
\* client c (langchain_integration.py:77-113), then line 156 of main.py:
\*   search     faiss_store.search(query, top_k=1), lines 22-24 of the store;
\*   filter     ... its list comprehension, then lines 94-105: the prompt gets
\*              faiss_results[0] when there is a result;
\*   agent      agent.run(pre_prompt): an answer, or an exception;
\*   add_index  faiss_store.add_text(response), lines 16-18 of the store;
\*   add_append ... its line 19, then return {"response": final_response}.
\* An exception that leaves the handler is answered with 500.
ProcessQuery(c) ==
    /\ req[c].op = "chat"
    /\ CASE req[c].pc = "search" ->
              /\ \E labels \in IndexSearch(index, encode(req[c].query), 1) :
                    req' = [req EXCEPT ![c].pc = "filter", ![c].labels = labels]
              /\ UNCHANGED <<index, texts, resp>>
         [] req[c].pc = "filter" ->
              IF Raises(req[c].labels, texts)
              THEN /\ resp' = ServerError(c, "IndexError")
                   /\ req' = [req EXCEPT ![c] = IdleReq]
                   /\ UNCHANGED <<index, texts>>
              ELSE /\ LET faiss_results == Comprehension(req[c].labels, texts)
                      IN  req' = [req EXCEPT ![c].pc = "agent",
                                    ![c].context = IF faiss_results # <<>>
                                                   THEN faiss_results[1] ELSE ""]
                   /\ UNCHANGED <<index, texts, resp>>
         [] req[c].pc = "agent" ->
              /\ \E answer \in Responses \cup {None} :
                    IF answer = None
                    THEN /\ resp' = ServerError(c, "agent")
                         /\ req' = [req EXCEPT ![c] = IdleReq]
                    ELSE /\ req' = [req EXCEPT ![c].pc = "add_index",
                                                ![c].response = answer]
                         /\ UNCHANGED resp
              /\ UNCHANGED <<index, texts>>
         [] req[c].pc = "add_index" ->
              /\ index' = Append(index, encode(req[c].response))
              /\ req' = [req EXCEPT ![c].pc = "add_append"]
              /\ UNCHANGED <<texts, resp>>
         [] req[c].pc = "add_append" ->
              /\ texts' = AppendText(texts, req[c].response)
              /\ resp' = [NoResp EXCEPT !.op = "chat", !.status = 200,
                                        !.adds = req[c].adds + 1,
                                        !.response = req[c].response]
              /\ req' = [req EXCEPT ![c] = IdleReq]
              /\ UNCHANGED index
    /\ UNCHANGED <<users, issued, now>>
    /\ UNCHANGED <<call, ret, addCalls, tool>>

\* ------------------------------------------------------------------ weather tool
Locations == {"Paris", "Pune", "Nowhere"}
\* Status codes of the weather provider's answers.
Statuses == {200, 401, 404, 500}
\* JSON bodies of the provider's answers: with the two fields _run reads, or without.
Payloads == [wellFormed : {TRUE}, description : {"clear sky", "rain"}, temp : {9, 21}]
              \cup {[wellFormed |-> FALSE, description |-> None, temp |-> 0]}

IdleTool == [pc |-> "idle", query |-> None, gets |-> 0, status |-> 0,
             data |-> [wellFormed |-> FALSE, description |-> None, temp |-> 0],
             result |-> <<>>]

InitTool == tool = IdleTool

Unable(query) == <<"Unable to fetch weather data for ", query, ".">>

Report(query, data) ==
    <<"In ", query, ", the weather is '", data.description,
      "' with a temperature of ", data.temp, "C.">>

\* A variant of lines 24-30 that raises on a status other than 200, as
\* response.raise_for_status() would.
run_result_raising(query, status, data) ==
    IF status = 200 /\ data.wellFormed
    THEN [pc |-> "returned", result |-> Report(query, data)]
    ELSE [pc |-> "raised", result |-> <<>>]

\* OpenWeatherTool._run, lines 24-30: what the tool does with the answer: the
\* report, the fixed sentence, or the KeyError of a 200 answer without the fields.
run_result(query, status, data) ==
    IF status = 200
    THEN IF data.wellFormed
         THEN [pc |-> "returned", result |-> Report(query, data)]
         ELSE [pc |-> "raised", result |-> <<>>]
    ELSE [pc |-> "returned", result |-> Unable(query)]

\* _run is entered with a location, lines 19-22.
ToolRun(query) ==
    /\ tool.pc \in {"idle", "returned", "raised"}
    /\ tool' = [IdleTool EXCEPT !.pc = "get", !.query = query]
    /\ UNCHANGED <<index, texts, call, ret, addCalls, users, issued, now, req, resp>>

\* requests.get(url), line 23: an answer of the provider, or a connection error.
ToolGet ==
    /\ tool.pc = "get"
    /\ \/ \E status \in Statuses, data \in Payloads :
            tool' = [tool EXCEPT !.pc = "got", !.gets = @ + 1, !.status = status,
                                 !.data = data]
       \/ tool' = [tool EXCEPT !.pc = "raised", !.gets = @ + 1]
    /\ UNCHANGED <<index, texts, call, ret, addCalls, users, issued, now, req, resp>>

\* Lines 24-30.
ToolReturn ==
    /\ tool.pc = "got"
    /\ LET r == run_result(tool.query, tool.status, tool.data)
       IN  tool' = [tool EXCEPT !.pc = r.pc, !.result = r.result]
    /\ UNCHANGED <<index, texts, call, ret, addCalls, users, issued, now, req, resp>>

\* ------------------------------------------------------------------ specifications
Init == InitStore /\ InitApi /\ InitTool

\* The HTTP API of main.py, every endpoint: clients sign up with one password
\* and one name, log in with any password, let time pass, and call the three
\* protected endpoints with the tokens they were given or with forged ones.
SessionBodies == {b \in Bodies : b.full_name = "B" /\ b.travel_preferences # {}}

Next ==
    \/ \E c \in Clients, e \in Emails : SignupLookup(c, e, "pw", "A")
    \/ \E c \in Clients : SignupInsert(c)
    \/ \E c \in Clients, e \in Emails, pw \in Passwords : Login(c, e, pw)
    \/ \E c \in Clients, t \in issued \cup Forged : ReadProfile(c, t)
    \/ \E c \in Clients, t \in issued \cup Forged, b \in SessionBodies : UpdateAuth(c, t, b)
    \/ \E c \in Clients : UpdateWrite(c)
    \/ \E c \in Clients : UpdateReturn(c)
    \/ \E c \in Clients, t \in issued \cup Forged, q \in Queries : ChatAuth(c, t, q)
    \/ \E c \in Clients : ProcessQuery(c)
    \/ \E d \in TickSteps : Tick(d)

Spec == Init /\ [][Next]_vars

\* POST /signup and POST /login alone, with every email, password and name.
NextSignup ==
    \/ \E c \in Clients, e \in Emails, pw \in Passwords, n \in Names : SignupLookup(c, e, pw, n)
    \/ \E c \in Clients : SignupInsert(c)
    \/ \E c \in Clients, e \in Emails, pw \in Passwords : Login(c, e, pw)

SpecSignup == Init /\ [][NextSignup]_vars

\* GET and PUT /profile with the tokens of logged-in users and every body.
NextProfile ==
    \/ \E c \in Clients, e \in Emails : SignupLookup(c, e, "pw", "A")
    \/ \E c \in Clients : SignupInsert(c)
    \/ \E c \in Clients, e \in Emails : Login(c, e, "pw")
    \/ \E c \in Clients, t \in issued : ReadProfile(c, t)
    \/ \E c \in Clients, t \in issued, b \in Bodies : UpdateAuth(c, t, b)
    \/ \E c \in Clients : UpdateWrite(c)
    \/ \E c \in Clients : UpdateReturn(c)

SpecProfile == Init /\ [][NextProfile]_vars

\* The FAISSStore instance, its two methods called by concurrent callers.
SpecStore == Init /\ [][NextStore]_vars

\* One OpenWeatherTool, invoked again and again.
NextTool == (\E q \in Locations : ToolRun(q)) \/ ToolGet \/ ToolReturn

SpecTool == Init /\ [][NextTool]_vars

\* ------------------------------------------------------------------ store claims

\* A step taken by a caller that is inside search, or enters it.
SearchStep ==
    \E p \in Procs : call'[p] # call[p] /\ (call[p].op = "search" \/ call'[p].op = "search")

\* C4: the memory store is append-only: after every step the number of stored
\* texts is the number of add_text calls that have returned, no step shrinks
\* the text list, and a step of search changes neither the text list nor the
\* index.
C4_AppendOnly ==
    [][ /\ Len(texts') = addCalls'
        /\ Len(texts') >= Len(texts)
        /\ (SearchStep => UNCHANGED <<index, texts>>) ]_vars

\* C4 witness: two add_text calls have returned and a search has returned since.
C4_Witness == addCalls = 2 /\ Len(texts) = 2 /\ ret.op = "search"

\* The labels of a search answer that are positions of stored texts.
Stored(labels, lst) == {j \in 1..Len(labels) : labels[j] \in 0..(Len(lst) - 1)}

\* C5: a search that returns gives at most k texts, never more texts than are
\* stored, and only the texts of labels that are positions of stored texts
\* (every other label, -1 included, is skipped).
C5_SearchBounded ==
    (ret.op = "search" /\ ~ret.raised) =>
        /\ Len(ret.results) <= ret.k
        /\ Len(ret.results) <= Len(texts)
        /\ Len(ret.results) <= Cardinality(Stored(ret.labels, texts))

\* C6: round trip: search(t, 1) after add_text(t) has returned gives a list
\* containing t, and search on an empty store returns the empty list.
C6_RoundTrip ==
    ret.op = "search" =>
        /\ (ret.had /\ ret.k = 1) => (~ret.raised /\ ret.text \in Range(ret.results))
        /\ texts = <<>> => (~ret.raised /\ ret.results = <<>>)

\* C10: whenever no add_text call is in progress, the index holds as many
\* vectors as the list holds texts, and the vector at each position is the
\* embedding of the text at that position.
C10_Aligned ==
    (\A p \in Procs : call[p].op # "add") =>
        /\ Len(index) = Len(texts)
        /\ \A i \in 1..Len(texts) : index[i] = encode(texts[i])

\* ------------------------------------------------------------------ API claims

NoDuplicateEmail ==
    \A i, j \in 1..Len(users) : users[i].email = users[j].email => i = j

\* C1: signup rejects duplicates: a signup that answers when a row already
\* holds its email (a signup for it has succeeded) answers 400 "Email already
\* registered", and the users table never holds two rows with one email.
C1_DuplicateRejected ==
    /\ NoDuplicateEmail
    /\ (resp.op = "signup" /\ resp.dup) =>
          (resp.status = 400 /\ resp.detail = "Email already registered")

\* A token is acceptable at the present time: login handed it out (nobody else
\* holds the key), its expiry lies ahead, and a user row holds its subject.
Acceptable(t) ==
    /\ t \in issued
    /\ now < t.exp
    /\ \E i \in 1..Len(users) : users[i].email = t.sub

\* C2: each protected endpoint accepts a token exactly when it is acceptable,
\* and answers 401 without running the handler body otherwise; a token that
\* login hands out expires ACCESS_TOKEN_EXPIRE_MINUTES after the login.
C2_TokenValidity ==
    [][ /\ \A t \in issued' \ issued : t.exp = now + ACCESS_TOKEN_EXPIRE_MINUTES
        /\ \A c \in Clients, t \in issued \cup Forged :
            /\ ReadProfile(c, t) =>
                  /\ resp'.op = "read_profile"
                  /\ resp'.status = IF Acceptable(t) THEN 200 ELSE 401
            /\ \A b \in SessionBodies : UpdateAuth(c, t, b) =>
                  IF Acceptable(t)
                  THEN req'[c].op = "update_profile" /\ resp' = resp
                  ELSE resp'.op = "update_profile" /\ resp'.status = 401 /\ req' = req
            /\ \A q \in Queries : ChatAuth(c, t, q) =>
                  IF Acceptable(t)
                  THEN \/ req'[c].op = "chat" /\ resp' = resp
                       \/ resp'.op = "chat" /\ resp'.status = 400 /\ req' = req
                  ELSE resp'.op = "chat" /\ resp'.status = 401 /\ req' = req ]_vars

\* C2 witness: a protected endpoint has turned down a token for its expiry,
\* while a client holding a token is inside the handler of PUT /profile, two
\* tokens having been issued.
C2_Witness ==
    /\ resp.status = 401 /\ resp.cause = "ExpiredSignatureError"
    /\ Cardinality(issued) = 2
    /\ \E c \in Clients : req[c].op = "update_profile"

\* The password that the row of email e was signed up with is pw.
Registered(e, pw) ==
    \E i \in 1..Len(users) :
        users[i].email = e /\ users[i].hashed_password.digest[2] = pw

\* C3: login with the password of a signed-up email answers 200 with a token
\* whose sub is that email; any other login answers one and the same response,
\* 400 "Incorrect email or password" without a token, whether a row holds the
\* email or not.
C3_Login ==
    [][ \A c \in Clients, e \in Emails, pw \in Passwords :
          Login(c, e, pw) =>
             IF Registered(e, pw)
             THEN /\ resp'.status = 200
                  /\ resp'.token.sub = e
                  /\ resp'.token \in issued'
             ELSE /\ resp' = [NoResp EXCEPT !.op = "login", !.status = 400,
                                            !.detail = "Incorrect email or password"]
                  /\ issued' = issued ]_vars

\* C3 witness: two users are signed up with different passwords, and a login
\* has returned a token.
C3_Witness ==
    /\ Len(users) = 2
    /\ users[1].hashed_password # users[2].hashed_password
    /\ resp.op = "login" /\ resp.status = 200 /\ resp.token.sub \in Emails

C9_UpdateFrame ==
    [][ /\ \A c \in Clients :
            (req[c].pc = "update" /\ req'[c].pc = "reselect") =>
                /\ Len(users') = Len(users)
                /\ \A i \in 1..Len(users) :
                      /\ users'[i].email = users[i].email
                      /\ users'[i].hashed_password = users[i].hashed_password
                      /\ IF users[i].email = req[c].user
                         THEN /\ users'[i].full_name = req[c].body.full_name
                              /\ users'[i].travel_preferences =
                                     req[c].body.travel_preferences
                         ELSE users'[i] = users[i]
        /\ \A c \in Clients, t \in issued :
            /\ \A b \in Bodies :
                  (UpdateAuth(c, t, b) /\ req'[c].op = "update_profile") =>
                      (req'[c].user = t.sub /\ req'[c].body = b)
            /\ (ReadProfile(c, t) /\ resp'.status = 200) =>
                  \E i \in 1..Len(users) :
                      users[i].email = t.sub /\ resp'.body = users[i] ]_vars

\* C9 witness: a user reads back the name and the preferences written by
\* PUT /profile, while the other user's row is as signup made it.
C9_Witness ==
    /\ resp.op = "read_profile" /\ resp.status = 200
    /\ resp.body.full_name = "B" /\ resp.body.travel_preferences # {}
    /\ \E i \in 1..Len(users) :
          users[i].email # resp.body.email /\ users[i].full_name = "A"
             /\ users[i].travel_preferences = {}

\* ------------------------------------------------------------------ tool claim

\* C8: an invocation of the weather tool issues at most one GET, and when the
\* GET was answered with a status other than 200 the tool returns the
\* "Unable to fetch" sentence for its location, raising nothing.
C8_WeatherNon200 ==
    /\ tool.gets <= 1
    /\ (tool.pc \in {"returned", "raised"} /\ tool.status \notin {0, 200}) =>
          /\ tool.pc = "returned"
          /\ tool.result = Unable(tool.query)
          /\ tool.gets = 1

\* C8 witness: the provider answered 404 and the tool has returned.
C8_Witness == tool.pc = "returned" /\ tool.status = 404 /\ tool.query = "Nowhere"

====
